---- MODULE Spec2Model ----
(***************************************************************************)
(* A model of the lazy dependency container of package di (src/di.go).     *)
(*                                                                         *)
(* The container owns a map from entity names to entities, a stack of      *)
(* release closures and a list of errors.  Set/SetNamed register or extend *)
(* an entity, Get/GetNamed resolve one (running its setup function, which  *)
(* may itself resolve other entities), Cleanup drains the stack from last  *)
(* to first.  Functions supplied by the caller (setup, middleware and      *)
(* release functions) are drawn from a small menu of behaviours.           *)
(***************************************************************************)
EXTENDS Integers, Sequences, FiniteSets, TLC

\* The number of container operations (Set, Get, Cleanup calls) of one run.
MaxOps == 5

(***************************************************************************)
(* Values of the caller's world.                                           *)
(***************************************************************************)

\* Declared value types T and entity names used by the caller: the builtin
\* types int and string, and the types User that two packages, both named
\* model, declare.
Types == {"int", "string", "UserA", "UserB"}
Names == {"", "x", "format"}

\* The package that declares T (import path and package name; none for a
\* builtin type) and the name it declares.
PkgPath(T) ==
    CASE T = "UserA" -> "example.com/a/model"
      [] T = "UserB" -> "example.com/b/model"
      [] OTHER -> ""
PkgName(T) == IF T \in {"UserA", "UserB"} THEN "model" ELSE ""
TypeName(T) == IF T \in {"UserA", "UserB"} THEN "User" ELSE T

\* What %T prints for T itself: the name qualified by the package name.
TypeString(T) == IF PkgName(T) = "" THEN TypeName(T) ELSE PkgName(T) \o "." \o TypeName(T)

\* T as it is written in the name of an instantiated generic type: the name
\* qualified by the import path of the package.
TypeArgString(T) == IF PkgPath(T) = "" THEN TypeName(T) ELSE PkgPath(T) \o "." \o TypeName(T)

\* A nil func value, a nil error.
NilFn == [kind |-> "nil"]
NilErr == [kind |-> "nilerr"]

\* empty[T](): the zero value of a value type.
empty == 0

\* fmt.Sprintf("%T", v) of the zero value of G: a nil interface prints as
\* "<nil>", every other zero value prints its type.
ZeroTypeString(G) == IF G.interface THEN "<nil>" ELSE G.str

\* A type *entityImpl[T] that prints its type argument the way a value of
\* type T prints its type.
PtrEntityImplShort(T) == [interface |-> FALSE, str |-> "*di.entityImpl[" \o TypeString(T) \o "]"]

\* The Go type *entityImpl[T]: a pointer type, printed with its type argument.
PtrEntityImpl(T) == [interface |-> FALSE, str |-> "*di.entityImpl[" \o TypeArgString(T) \o "]"]

\* A key derivation that leaves the name out.
genNameOfTypeOnly(G, name) ==
    LET entityName == IF ZeroTypeString(G) = "<nil>"
                      THEN "*" \o G.str
                      ELSE ZeroTypeString(G)
    IN "<" \o entityName \o ">"

\* genName[G](name)
genName(G, name) ==
    LET entityName == IF ZeroTypeString(G) = "<nil>"
                      THEN "*" \o G.str
                      ELSE ZeroTypeString(G)
    IN name \o "<" \o entityName \o ">"

\* new(entityImpl[T]): the zero entity; T is its type argument, which the
\* type assertions of SetNamed and GetNamed test.
NewEntity(T) == [T |-> T, setupFn |-> NilFn, cleanupFn |-> NilFn, noReuse |-> FALSE, val |-> empty]

\* The closure `func() error { return nil }` and the closure
\* `func() error { return e.cleanupFn(val) }` over the entity e and the value val.
NoopCleanup == [kind |-> "noop", ent |-> "", val |-> empty]
BoundCleanup(e, v) == [kind |-> "bound", ent |-> e, val |-> v]

\* Errors: the two fatal errors of GetNamed, the errors the caller's functions return.
NotFound(entityName) == [kind |-> "NotFound", name |-> entityName]
SetupFailed(entity, err) == [kind |-> "SetupFailed", entity |-> entity, cause |-> err]
SetupErr == [kind |-> "err", msg |-> "setup"]
MiddlewareErr == [kind |-> "err", msg |-> "middleware"]
ReleaseErr(v) == [kind |-> "err", msg |-> "release", val |-> v]

\* A join that keeps the nil values: it is an error as soon as the list holds
\* anything.
JoinKeepsNil(es) == IF es = <<>> THEN NilErr ELSE [kind |-> "join", errs |-> es]

\* errors.Join(errs...): nil values are discarded, nil when nothing is left.
Join(es) ==
    LET kept == SelectSeq(es, LAMBDA e : e # NilErr)
    IN IF kept = <<>> THEN NilErr ELSE [kind |-> "join", errs |-> kept]

(***************************************************************************)
(* The caller's functions.  A func value is a record: its kind names the   *)
(* behaviour, and a closure carries what it captured.                      *)
(***************************************************************************)

\* Setup functions: "count" increments a counter shared by the caller's
\* setups and returns it, "fail" returns an error, "dep" resolves the entity
\* (T, name) from the container and derives its value from it, "depfail"
\* resolves it and then returns an error.
SetupCount == [kind |-> "count", T |-> "", name |-> ""]
SetupFail == [kind |-> "fail", T |-> "", name |-> ""]
SetupDep(T, name) == [kind |-> "dep", T |-> T, name |-> name]
SetupDepFail(T, name) == [kind |-> "depfail", T |-> T, name |-> name]

\* What a "dep" setup makes of the value it resolved.
Derive(v) == v + 10

\* Middleware functions: decrement, negate, fail.
MwDec == [kind |-> "dec"]
MwNeg == [kind |-> "neg"]
MwFail == [kind |-> "mwfail"]

\* Release functions: "relNil" returns nil, "relErr" and "relErr2" return an
\* error that names the value released.
RelNil == [kind |-> "relNil"]
RelErr == [kind |-> "relErr"]
RelErr2 == [kind |-> "relErr2"]

\* The call f(val) of a middleware function: <<value, error>>.
CallMiddleware(f, v) ==
    CASE f.kind = "dec" -> [val |-> v - 1, err |-> NilErr]
      [] f.kind = "neg" -> [val |-> 0 - v, err |-> NilErr]
      [] f.kind = "mwfail" -> [val |-> empty, err |-> MiddlewareErr]

\* The call f(val) of a release function: the error it returns.
CallRelease(f, v) ==
    CASE f.kind = "relNil" -> NilErr
      [] f.kind = "relErr" -> ReleaseErr(v)
      [] f.kind = "relErr2" -> [kind |-> "err", msg |-> "release2", val |-> v]

(***************************************************************************)
(* The record of what ran: one event per registration, per call of an      *)
(* entity's setup function and its return, per return of one of the        *)
(* caller's setup and middleware functions, per resolution, per call of a  *)
(* release closure and per Cleanup.                                        *)
(***************************************************************************)
Event(ev, ent, res, val, err, cl, opts) ==
    [ev |-> ev, ent |-> ent, res |-> res, val |-> val, err |-> err, cl |-> cl, opts |-> opts]

EvSet(ent, opts) == Event("Set", ent, "ok", empty, NilErr, NoopCleanup, opts)
EvSetup(ent) == Event("setup", ent, "called", empty, NilErr, NoopCleanup, <<>>)
EvProduced(ent, val, err) == Event("produced", ent, "returned", val, err, NoopCleanup, <<>>)
EvCall(fn, val, err) == Event("call", "", fn.kind, val, err, NoopCleanup, <<>>)
EvGet(ent, res, val, err, cl) == Event("Get", ent, res, val, err, cl, <<>>)
EvRelease(cl, fn, arg, err) == Event("release", cl.ent, fn.kind, arg, err, cl, <<>>)
EvCleanup(err) == Event("Cleanup", "", "ok", empty, err, NoopCleanup, <<>>)

(***************************************************************************)
(* The container.  The operators below take and return the program state   *)
(* as a record st: the container's three fields, the caller's counter and  *)
(* the record of events.  A call that panics returns res = "panic" with    *)
(* the state as the panic left it.                                         *)
(***************************************************************************)

\* OptSetup(f), OptNoReuse(), OptMiddleware(f), OptCleanup(f), each applied to
\* the entity s.  The closure OptMiddleware builds captures the entity's
\* setup function of that moment.
\* An OptSetup that replaces the setup function under the middlewares already
\* registered and keeps them.
RECURSIVE ReplaceBase(_, _)
ReplaceBase(fn, f) ==
    IF fn.kind = "mw" THEN [fn EXCEPT !.inner = ReplaceBase(fn.inner, f)] ELSE f

OptSetupKeepsMiddleware(s, f) == [s EXCEPT !.setupFn = ReplaceBase(s.setupFn, f)]

OptSetup(s, f) == [s EXCEPT !.setupFn = f]

OptNoReuse(s) == [s EXCEPT !.noReuse = TRUE]
\* A middleware that is put under the middlewares already registered: it runs
\* first, right after the setup function.
RECURSIVE WrapInnermost(_, _)
WrapInnermost(fn, f) ==
    IF fn.kind = "mw"
    THEN [fn EXCEPT !.inner = WrapInnermost(fn.inner, f)]
    ELSE [kind |-> "mw", inner |-> fn, f |-> f]

OptMiddlewareInnermost(s, f) == [s EXCEPT !.setupFn = WrapInnermost(s.setupFn, f)]

OptMiddleware(s, f) == [s EXCEPT !.setupFn = [kind |-> "mw", inner |-> s.setupFn, f |-> f]]
OptCleanup(s, f) == [s EXCEPT !.cleanupFn = f]

\* An option value as the caller passes it, and its application opt(entity).
Opt(name, f) == [opt |-> name, f |-> f]
ApplyOpt(o, s) ==
    CASE o.opt = "OptSetup" -> OptSetup(s, o.f)
      [] o.opt = "OptNoReuse" -> OptNoReuse(s)
      [] o.opt = "OptMiddleware" -> OptMiddleware(s, o.f)
      [] o.opt = "OptCleanup" -> OptCleanup(s, o.f)

\* for _, opt := range opts { opt(entity) }
RECURSIVE ApplyOpts(_, _)
ApplyOpts(opts, s) ==
    IF opts = <<>> THEN s ELSE ApplyOpts(Tail(opts), ApplyOpt(Head(opts), s))

\* A SetNamed that treats a second registration of a name as an error of the
\* container.
SetNamedRejectsDuplicate(st, T, name, opts) ==
    LET entityName == genName(PtrEntityImpl(T), name)
        ok == entityName \in DOMAIN st.entities /\ st.entities[entityName].T = T
        entity == IF ok THEN st.entities[entityName] ELSE NewEntity(T)
        configured == ApplyOpts(opts, entity)
    IN [st EXCEPT !.entities = [k \in DOMAIN st.entities \cup {entityName} |->
                                   IF k = entityName THEN configured ELSE st.entities[k]],
                  !.errs = IF ok THEN Append(@, NotFound(entityName)) ELSE @,
                  !.events = Append(@, EvSet(entityName, opts))]

\* A SetNamed that starts from a new entity whether the name is registered
\* or not.
SetNamedReplaces(st, T, name, opts) ==
    LET entityName == genName(PtrEntityImpl(T), name)
        configured == ApplyOpts(opts, NewEntity(T))
    IN [st EXCEPT !.entities = [k \in DOMAIN st.entities \cup {entityName} |->
                                   IF k = entityName THEN configured ELSE st.entities[k]],
                  !.events = Append(@, EvSet(entityName, opts))]

\* SetNamed[T](c, name, opts...).  The lookup `c.entities[entityName].(*entityImpl[T])`
\* succeeds when the name is in the map and the entity found has the type
\* argument T; otherwise a new entity takes the name.
SetNamed(st, T, name, opts) ==
    LET entityName == genName(PtrEntityImpl(T), name)
        ok == entityName \in DOMAIN st.entities /\ st.entities[entityName].T = T
        entity == IF ok THEN st.entities[entityName] ELSE NewEntity(T)
        configured == ApplyOpts(opts, entity)
    IN [st EXCEPT !.entities = [k \in DOMAIN st.entities \cup {entityName} |->
                                   IF k = entityName THEN configured ELSE st.entities[k]],
                  !.events = Append(@, EvSet(entityName, opts))]

\* Set[T](c, opts...)
Set(st, T, opts) == SetNamed(st, T, "", opts)

\* An error that is raised and not recorded.
RecordErrDropped(st, err) == st

\* c.errs = append(c.errs, err)
RecordErr(st, err) == [st EXCEPT !.errs = Append(@, err)]

\* A push that puts the closure under the ones already on the stack.
PushCleanupUnder(st, cl) == [st EXCEPT !.cleanup = <<cl>> \o @]

\* c.cleanup = append(c.cleanup, cleanup)
PushCleanup(st, cl) == [st EXCEPT !.cleanup = Append(@, cl)]

\* A setup() that stores the value and never clears the setup function.
PrimedKeepsSetup(e, val) == [e EXCEPT !.val = val]

\* e.val = val; if !e.noReuse { e.setupFn = nil }
Primed(e, val) == [e EXCEPT !.val = val, !.setupFn = IF ~e.noReuse THEN NilFn ELSE @]

\* The release closure setup() returns for the entity e, registered as
\* entityName, after its setup function produced val.
ReleaseOf(e, entityName, val) ==
    IF e.cleanupFn # NilFn THEN BoundCleanup(entityName, val) ELSE NoopCleanup

\* A setup() that stores the value and applies the reuse policy before it
\* looks at the error.
SetupFailureAfterStore(st, entityName, err) ==
    [st |-> [st EXCEPT !.entities[entityName] = Primed(@, empty)],
     res |-> "err", err |-> err, cleanup |-> NoopCleanup]

\* A failing setup() that takes back the closure pushed last, as if the
\* failed resolution had to undo what it acquired.
SetupFailureUnwinds(st, entityName, err) ==
    [st |-> [st EXCEPT !.cleanup = SubSeq(@, 1, Len(@) - 1)],
     res |-> "err", err |-> err, cleanup |-> NoopCleanup]

\* `return cleanup, err` of setup(): the entity is left as it was.
SetupFailure(st, entityName, err) ==
    [st |-> st, res |-> "err", err |-> err, cleanup |-> NoopCleanup]

\* A setup() that, finding no setup function, still binds the release
\* function to the value cached on the entity.
SetupSkippedBinds(st, entityName) ==
    [st |-> st, res |-> "ok", err |-> NilErr,
     cleanup |-> ReleaseOf(st.entities[entityName], entityName, st.entities[entityName].val)]

\* `if e.setupFn == nil { return cleanup, nil }` of setup(): nothing runs and
\* the closure returned is the no-op.
SetupSkipped(st, entityName) ==
    [st |-> st, res |-> "ok", err |-> NilErr, cleanup |-> NoopCleanup]

RECURSIVE CallSetup(_, _)
RECURSIVE setup(_, _)
RECURSIVE GetNamed(_, _, _)

\* The call fn() of a setup function: [st, res, val, err] with res "ok" (a
\* value), "err" (an error) or "panic".  Calling a nil func panics.
CallSetup(fn, st) ==
    CASE fn.kind = "nil" -> [st |-> st, res |-> "panic", val |-> empty, err |-> NilErr]
      [] fn.kind = "count" ->
            [st |-> [st EXCEPT !.count = @ + 1,
                               !.events = Append(@, EvCall(fn, st.count + 1, NilErr))],
             res |-> "ok", val |-> st.count + 1, err |-> NilErr]
      [] fn.kind = "fail" ->
            [st |-> [st EXCEPT !.events = Append(@, EvCall(fn, empty, SetupErr))],
             res |-> "err", val |-> empty, err |-> SetupErr]
      [] fn.kind \in {"dep", "depfail"} ->
            LET r == GetNamed(st, fn.T, fn.name) IN
            IF r.res = "panic"
            THEN [st |-> r.st, res |-> "panic", val |-> empty, err |-> NilErr]
            ELSE IF fn.kind = "depfail"
            THEN [st |-> [r.st EXCEPT !.events = Append(@, EvCall(fn, empty, SetupErr))],
                  res |-> "err", val |-> empty, err |-> SetupErr]
            ELSE [st |-> [r.st EXCEPT !.events = Append(@, EvCall(fn, Derive(r.val), NilErr))],
                  res |-> "ok", val |-> Derive(r.val), err |-> NilErr]
      [] fn.kind = "mw" ->
            LET r == CallSetup(fn.inner, st) IN
            IF r.res = "panic" THEN r
            ELSE IF r.err # NilErr
            THEN [st |-> r.st, res |-> "err", val |-> empty, err |-> r.err]
            ELSE LET m == CallMiddleware(fn.f, r.val) IN
                 [st |-> [r.st EXCEPT !.events = Append(@, EvCall(fn.f, m.val, m.err))],
                  res |-> IF m.err # NilErr THEN "err" ELSE "ok",
                  val |-> m.val, err |-> m.err]

\* (e *entityImpl[T]) setup(), e the entity registered as entityName:
\* [st, res, err, cleanup].
setup(st, entityName) ==
    LET e == st.entities[entityName] IN
    IF e.setupFn = NilFn
    THEN SetupSkipped(st, entityName)
    ELSE LET r == CallSetup(e.setupFn, [st EXCEPT !.events = Append(@, EvSetup(entityName))]) IN
         IF r.res = "panic"
         THEN [st |-> r.st, res |-> "panic", err |-> NilErr, cleanup |-> NoopCleanup]
         ELSE LET st1 == [r.st EXCEPT !.events = Append(@, EvProduced(entityName, r.val, r.err))] IN
              IF r.err # NilErr
              THEN SetupFailure(st1, entityName, r.err)
              ELSE LET e1 == Primed(st1.entities[entityName], r.val) IN
                   [st |-> [st1 EXCEPT !.entities[entityName] = e1],
                    res |-> "ok", err |-> NilErr,
                    cleanup |-> ReleaseOf(e1, entityName, r.val)]

\* GetNamed[T](c, name): [st, res, val] with res "ok" or "panic".  The error
\* is recorded before the panic; the value returned is the one cached on the
\* entity after its setup(), read through the type assertion
\* `entity.(*entityImpl[T])`, which panics (the closure already pushed) when
\* the entity found has another type argument.
GetNamed(st, T, name) ==
    LET entityName == genName(PtrEntityImpl(T), name)
        ok == entityName \in DOMAIN st.entities
    IN IF ~ok
       THEN LET err == NotFound(entityName) IN
            [st |-> [RecordErr(st, err) EXCEPT
                        !.events = Append(@, EvGet(entityName, "notfound", empty, err, NoopCleanup))],
             res |-> "panic", val |-> empty]
       ELSE LET r == setup(st, entityName) IN
            IF r.res = "panic"
            THEN [st |-> [r.st EXCEPT !.events = Append(@, EvGet(entityName, "unwound", empty, NilErr, NoopCleanup))],
                  res |-> "panic", val |-> empty]
            ELSE IF r.err # NilErr
            THEN LET err == SetupFailed(r.st.entities[entityName], r.err) IN
                 [st |-> [RecordErr(r.st, err) EXCEPT
                             !.events = Append(@, EvGet(entityName, "setupfailed", empty, err, NoopCleanup))],
                  res |-> "panic", val |-> empty]
            ELSE IF r.st.entities[entityName].T # T
            THEN [st |-> [PushCleanup(r.st, r.cleanup) EXCEPT
                             !.events = Append(@, EvGet(entityName, "badtype", empty, NilErr, r.cleanup))],
                  res |-> "panic", val |-> empty]
            ELSE LET val == r.st.entities[entityName].val IN
                 [st |-> [PushCleanup(r.st, r.cleanup) EXCEPT
                             !.events = Append(@, EvGet(entityName, "ok", val, NilErr, r.cleanup))],
                  res |-> "ok", val |-> val]

\* Get[T](c)
Get(st, T) == GetNamed(st, T, "")

\* A release closure that passes the value cached on the entity when it is
\* called, and not the value it captured.
CallClosureLive(st, cl) ==
    LET fn == IF cl.kind = "noop" THEN [kind |-> "noop"] ELSE st.entities[cl.ent].cleanupFn
        arg == IF cl.kind = "noop" THEN cl.val ELSE st.entities[cl.ent].val
        err == IF cl.kind = "noop" THEN NilErr ELSE CallRelease(fn, arg)
    IN [fn |-> fn, arg |-> arg, err |-> err]

\* The call of a release closure: a bound closure reads the release function
\* of its entity when it is called and passes it the value it captured.
CallClosure(st, cl) ==
    LET fn == IF cl.kind = "noop" THEN [kind |-> "noop"] ELSE st.entities[cl.ent].cleanupFn
        arg == cl.val
        err == IF cl.kind = "noop" THEN NilErr ELSE CallRelease(fn, arg)
    IN [fn |-> fn, arg |-> arg, err |-> err]

\* A loop that visits the closures from first to last.
CleanupOrderForward(n) == [j \in 1..n |-> j]

\* for i := len(c.cleanup) - 1; i >= 0; i--: the indices visited, in order
\* (counted from 1).
CleanupOrder(n) == [j \in 1..n |-> n + 1 - j]

\* The body of Cleanup's loop as of src/di.go line 181: the closure's result
\* is appended to c.errs, nil or not.
AppendAll(st, err) == RecordErr(st, err)

\* The body of Cleanup's loop as of src/di.go lines 30-32: only a non-nil
\* result is appended to c.errs.
AppendNonNil(st, err) == IF err # NilErr THEN RecordErr(st, err) ELSE st

\* A loop that returns at the first closure that fails.
RECURSIVE CleanupLoopStops(_, _, _)
CleanupLoopStops(st, order, v) ==
    IF order = <<>> THEN st
    ELSE LET cl == st.cleanup[Head(order)]
             r == CallClosure(st, cl)
             st1 == [st EXCEPT !.events = Append(@, EvRelease(cl, r.fn, r.arg, r.err))]
         IN IF r.err # NilErr THEN RecordErr(st1, r.err)
            ELSE CleanupLoopStops(IF v = "appendNonNil" THEN AppendNonNil(st1, r.err) ELSE AppendAll(st1, r.err),
                                  Tail(order), v)

\* Cleanup's loop over the indices `order`, with the loop body of build v.
RECURSIVE CleanupLoop(_, _, _)
CleanupLoop(st, order, v) ==
    IF order = <<>> THEN st
    ELSE LET cl == st.cleanup[Head(order)]
             r == CallClosure(st, cl)
             st1 == [st EXCEPT !.events = Append(@, EvRelease(cl, r.fn, r.arg, r.err))]
         IN CleanupLoop(IF v = "appendNonNil" THEN AppendNonNil(st1, r.err) ELSE AppendAll(st1, r.err),
                        Tail(order), v)

\* A Cleanup that reports the errors of its own drain only.
CleanupReportsDrainOnly(st, v) ==
    LET drained == CleanupLoop(st, CleanupOrder(Len(st.cleanup)), v)
        err == Join(SubSeq(drained.errs, Len(st.errs) + 1, Len(drained.errs)))
    IN [st |-> [drained EXCEPT !.events = Append(@, EvCleanup(err))], err |-> err]

\* (c *Container) Cleanup(): [st, err], err the joined error it returns.
Cleanup(st, v) ==
    LET drained == CleanupLoop(st, CleanupOrder(Len(st.cleanup)), v)
        err == Join(drained.errs)
    IN [st |-> [drained EXCEPT !.events = Append(@, EvCleanup(err))], err |-> err]

(***************************************************************************)
(* The callers.  A caller is a program that uses one container: the        *)
(* registrations it can make and the entities it can resolve, in any order *)
(* and any number of times, and Cleanup whenever it likes.                 *)
(***************************************************************************)
Reg(api, T, name, opts) == [api |-> api, T |-> T, name |-> name, opts |-> opts]
Res(api, T, name) == [api |-> api, T |-> T, name |-> name]

\* An entity reused by default, the same type under a name with OptNoReuse,
\* and a later registration that replaces the first entity's release function.
CallerReuse ==
    [regs |-> {Reg("Set", "int", "", <<Opt("OptSetup", SetupCount), Opt("OptCleanup", RelErr)>>),
               Reg("SetNamed", "int", "x", <<Opt("OptSetup", SetupCount), Opt("OptCleanup", RelNil),
                                             Opt("OptNoReuse", NilFn)>>),
               Reg("SetNamed", "int", "", <<Opt("OptCleanup", RelErr2)>>)},
     gets |-> {Res("Get", "int", ""), Res("GetNamed", "int", ""), Res("GetNamed", "int", "x"),
               Res("Get", "string", "")}]

\* One entity configured piece by piece: setup, middlewares, policy.
CallerMiddleware ==
    [regs |-> {Reg("Set", "int", "", <<Opt("OptSetup", SetupCount), Opt("OptCleanup", RelErr)>>),
               Reg("Set", "int", "", <<Opt("OptMiddleware", MwDec)>>),
               Reg("Set", "int", "", <<Opt("OptMiddleware", MwNeg)>>),
               Reg("Set", "int", "", <<Opt("OptMiddleware", MwFail)>>),
               Reg("Set", "int", "", <<Opt("OptNoReuse", NilFn)>>)},
     gets |-> {Res("Get", "int", "")}]

\* Entities whose setups resolve other entities: string from int, and the
\* named string "format" from the unnamed string.
CallerDeps ==
    [regs |-> {Reg("Set", "int", "", <<Opt("OptSetup", SetupCount), Opt("OptCleanup", RelErr)>>),
               Reg("Set", "string", "", <<Opt("OptSetup", SetupDep("int", "")), Opt("OptCleanup", RelErr)>>),
               Reg("SetNamed", "string", "format", <<Opt("OptSetup", SetupDep("string", "")),
                                                     Opt("OptCleanup", RelErr)>>),
               Reg("SetNamed", "string", "format", <<Opt("OptSetup", SetupDepFail("string", ""))>>)},
     gets |-> {Res("Get", "int", ""), Res("Get", "string", ""), Res("GetNamed", "string", "format")}]

\* Setups that fail, and an entity that is replaced by a working one.
CallerFail ==
    [regs |-> {Reg("Set", "int", "", <<Opt("OptSetup", SetupFail), Opt("OptCleanup", RelErr)>>),
               Reg("Set", "int", "", <<Opt("OptSetup", SetupCount)>>),
               Reg("SetNamed", "int", "x", <<Opt("OptSetup", SetupCount), Opt("OptCleanup", RelErr),
                                             Opt("OptNoReuse", NilFn)>>)},
     gets |-> {Res("Get", "int", ""), Res("GetNamed", "int", "x"), Res("GetNamed", "string", "x")}]

\* Two types of the same name, declared by two packages of the same name,
\* both registered without a name.
CallerTwins ==
    [regs |-> {Reg("Set", "UserA", "", <<Opt("OptSetup", SetupCount), Opt("OptCleanup", RelErr)>>),
               Reg("Set", "UserB", "", <<Opt("OptSetup", SetupCount), Opt("OptCleanup", RelNil)>>)},
     gets |-> {Res("Get", "UserA", ""), Res("Get", "UserB", "")}]

Callers == {CallerReuse, CallerMiddleware, CallerDeps, CallerFail, CallerTwins}

\* The two bodies of Cleanup in src/di.go (lines 179-185 and lines 28-36); a
\* build has one of them.
Builds == {"appendAll", "appendNonNil"}

(***************************************************************************)
(* The state machine.                                                      *)
(***************************************************************************)
VARIABLES
    entities,   \* c.entities: entity name -> entity
    cleanup,    \* c.cleanup: the release closures, in the order pushed
    errs,       \* c.errs
    count,      \* the counter of the caller's "count" setups
    events,     \* what ran so far
    nops,       \* the number of container operations called so far
    caller,     \* the caller's program
    build       \* which body of Cleanup is built

vars == <<entities, cleanup, errs, count, events, nops, caller, build>>

\* The program state as the operators take it, and its assignment.
St == [entities |-> entities, cleanup |-> cleanup, errs |-> errs, count |-> count,
       events |-> events]

Becomes(st) ==
    /\ entities' = st.entities
    /\ cleanup' = st.cleanup
    /\ errs' = st.errs
    /\ count' = st.count
    /\ events' = st.events
    /\ nops' = nops + 1
    /\ UNCHANGED <<caller, build>>

\* New()
New == [entities |-> << >>, cleanup |-> << >>, errs |-> << >>]

Init ==
    /\ entities = New.entities
    /\ cleanup = New.cleanup
    /\ errs = New.errs
    /\ count = 0
    /\ events = << >>
    /\ nops = 0
    /\ caller \in Callers
    /\ build \in Builds

CallSet(T, opts) ==
    /\ nops < MaxOps
    /\ Reg("Set", T, "", opts) \in caller.regs
    /\ Becomes(Set(St, T, opts))

CallSetNamed(T, name, opts) ==
    /\ nops < MaxOps
    /\ Reg("SetNamed", T, name, opts) \in caller.regs
    /\ Becomes(SetNamed(St, T, name, opts))

CallGet(T) ==
    /\ nops < MaxOps
    /\ Res("Get", T, "") \in caller.gets
    /\ Becomes(Get(St, T).st)

CallGetNamed(T, name) ==
    /\ nops < MaxOps
    /\ Res("GetNamed", T, name) \in caller.gets
    /\ Becomes(GetNamed(St, T, name).st)

CallCleanup ==
    /\ nops < MaxOps
    /\ Becomes(Cleanup(St, build).st)

Next ==
    \/ \E r \in caller.regs : CallSet(r.T, r.opts)
    \/ \E r \in caller.regs : CallSetNamed(r.T, r.name, r.opts)
    \/ \E g \in caller.gets : CallGet(g.T)
    \/ \E g \in caller.gets : CallGetNamed(g.T, g.name)
    \/ CallCleanup

Spec == Init /\ [][Next]_vars

(***************************************************************************)
(* Vocabulary of the properties.                                           *)
(***************************************************************************)

\* The name under which Set/Get address the entity of type T named name.
Key(T, name) == genName(PtrEntityImpl(T), name)

Idx == 1..Len(events)

IsOkGet(e) == e.ev = "Get" /\ e.res = "ok"
IsFatalGet(e) == e.ev = "Get" /\ e.res \in {"notfound", "setupfailed"}

\* The release closures pushed by the resolutions that returned before
\* position p of the events, in the order of their return.
PushedBefore(p) ==
    LET g == SelectSeq(SubSeq(events, 1, p - 1), IsOkGet)
    IN [i \in 1..Len(g) |-> g[i].cl]

\* The events a step adds.
NewEvents == SubSeq(events', Len(events) + 1, Len(events'))

Distinct(seq) == \A i, j \in 1..Len(seq) : i # j => seq[i] # seq[j]

(***************************************************************************)
(* Reverse order of release.                                               *)
(***************************************************************************)

\* C1: the release stack holds the closures of the successful resolutions in
\* the order they returned, R1..RN, and every Cleanup() calls exactly these
\* closures in the order RN, ..., R1: the i-th event before the end of a
\* Cleanup is the call of Ri, and no other closure is called.
C1_ReverseOrder ==
    /\ cleanup = PushedBefore(Len(events) + 1)
    /\ \A p \in Idx : events[p].ev = "Cleanup" =>
          LET R == PushedBefore(p)
              N == Len(R)
          IN /\ p > N
             /\ \A i \in 1..N : events[p - i].ev = "release" /\ events[p - i].cl = R[i]
             /\ (p - N - 1 >= 1 => events[p - N - 1].ev # "release")

\* A Cleanup that drained three different closures.
C1_Witness ==
    \E p \in Idx :
        /\ events[p].ev = "Cleanup"
        /\ Len(PushedBefore(p)) >= 3
        /\ Distinct(PushedBefore(p))

(***************************************************************************)
(* Reuse and no reuse.                                                     *)
(***************************************************************************)

\* The events of one kind about the entity k, in order.
EventsOf(ev, k) == SelectSeq(events, LAMBDA e : e.ev = ev /\ e.ent = k)

\* The positions of the events of one kind about the entity k.
At(ev, k) == {p \in Idx : events[p].ev = ev /\ events[p].ent = k}

\* k was not registered again once a resolution of it had begun.
Settled(k) == \A p \in At("Set", k), q \in At("Get", k) \cup At("setup", k) : p < q

\* Some registration of k passed the option named opt.
Registered(k, opt) ==
    \E p \in At("Set", k) : \E i \in 1..Len(events[p].opts) : events[p].opts[i].opt = opt

\* Every resolution of k so far returned a value, and there was one.
AllResolved(k) ==
    /\ At("Get", k) # {}
    /\ \A q \in At("Get", k) : events[q].res = "ok"

\* The release events of the Cleanup that ends at position c, in order.
Drained(c) == SubSeq(events, c - Len(PushedBefore(c)), c - 1)

Reverse(seq) == [i \in 1..Len(seq) |-> seq[Len(seq) + 1 - i]]

Vals(seq) == [i \in 1..Len(seq) |-> seq[i].val]

\* C2: an entity with a setup function and the default reuse policy, not
\* registered again once resolved, all of whose resolutions returned: its
\* setup function was called exactly once, every resolution returned the one
\* cached value, the first resolution pushed the closure bound to that value
\* (when a release function is configured) and every later one a no-op, and
\* every Cleanup after that calls the entity's release function exactly once.
C2_ReuseDefault ==
    \A k \in DOMAIN entities :
        (/\ ~entities[k].noReuse
         /\ AllResolved(k)
         /\ Registered(k, "OptSetup")
         /\ Settled(k))
        => LET gets == EventsOf("Get", k)
               e == entities[k]
           IN /\ Len(EventsOf("setup", k)) = 1
              /\ \A i \in 1..Len(gets) : gets[i].val = e.val
              /\ gets[1].cl = IF e.cleanupFn # NilFn THEN BoundCleanup(k, e.val) ELSE NoopCleanup
              /\ \A i \in 2..Len(gets) : gets[i].cl = NoopCleanup
              /\ \A c \in Idx :
                    (events[c].ev = "Cleanup" /\ e.cleanupFn # NilFn /\ \E q \in At("Get", k) : q < c)
                    => Len(SelectSeq(Drained(c), LAMBDA r : r.ent = k /\ r.res = e.cleanupFn.kind)) = 1

\* A reused entity with a release function, resolved three times and then
\* cleaned up.
C2_Witness ==
    \E k \in DOMAIN entities :
        /\ Settled(k) /\ Registered(k, "OptSetup") /\ ~entities[k].noReuse /\ AllResolved(k)
        /\ entities[k].cleanupFn # NilFn
        /\ Len(EventsOf("Get", k)) >= 3
        /\ events[Len(events)].ev = "Cleanup"

\* C3: an entity with a setup function, a release function and OptNoReuse,
\* not registered again once resolved, resolved K times: its setup function
\* was called K times, the i-th resolution returned the value the i-th call
\* produced and pushed a closure bound to that value, and every Cleanup
\* passes to the release function, for the resolutions before it, the values
\* they produced (in reverse), whatever value is cached on the entity.
C3_NoReuse ==
    \A k \in DOMAIN entities :
        (/\ entities[k].noReuse
         /\ entities[k].cleanupFn # NilFn
         /\ AllResolved(k)
         /\ Registered(k, "OptSetup")
         /\ Settled(k))
        => LET gets == EventsOf("Get", k)
               produced == EventsOf("produced", k)
           IN /\ Len(EventsOf("setup", k)) = Len(gets)
              /\ Len(produced) = Len(gets)
              /\ \A i \in 1..Len(gets) :
                    /\ gets[i].val = produced[i].val
                    /\ gets[i].cl = BoundCleanup(k, produced[i].val)
              /\ \A c \in Idx : events[c].ev = "Cleanup" =>
                    LET before == SelectSeq(SubSeq(events, 1, c - 1),
                                            LAMBDA x : x.ev = "produced" /\ x.ent = k)
                        released == SelectSeq(Drained(c), LAMBDA r : r.ent = k)
                    IN /\ Vals(released) = Reverse(Vals(before))
                       /\ \A i \in 1..Len(released) : released[i].res = entities[k].cleanupFn.kind

\* A no-reuse entity resolved three times, to three different values, and
\* then cleaned up.
C3_Witness ==
    \E k \in DOMAIN entities :
        /\ Settled(k) /\ Registered(k, "OptSetup") /\ entities[k].noReuse
        /\ entities[k].cleanupFn # NilFn /\ AllResolved(k)
        /\ Len(EventsOf("Get", k)) >= 3
        /\ Distinct(Vals(EventsOf("Get", k)))
        /\ events[Len(events)].ev = "Cleanup"

(***************************************************************************)
(* Middleware.                                                             *)
(***************************************************************************)

RECURSIVE Concat(_)
Concat(seqs) == IF seqs = <<>> THEN <<>> ELSE Head(seqs) \o Concat(Tail(seqs))

\* The options the registrations of k passed, in order.
RegisteredOpts(k) ==
    LET sets == EventsOf("Set", k) IN Concat([i \in 1..Len(sets) |-> sets[i].opts])

\* Of these, the ones that write the setup function.
SetupOpts(k) ==
    SelectSeq(RegisteredOpts(k), LAMBDA o : o.opt \in {"OptSetup", "OptMiddleware"})

Min(S) == CHOOSE x \in S : \A y \in S : x <= y

\* C4: an entity whose registrations ended with a setup function, a
\* middleware A and a middleware B, resolved for the first time with success:
\* the setup function returned first, then A was called on its value, then B
\* on A's value; B's value is what the resolution returned, what is cached on
\* the entity, what the pushed closure captured and what every release of
\* that closure is passed.
C4_MiddlewareOrder ==
    \A k \in DOMAIN entities :
        LET so == SetupOpts(k)
            n == Len(so)
        IN (/\ At("Get", k) # {}
            /\ events[Min(At("Get", k))].res = "ok"
            /\ n >= 3
            /\ so[n - 2].opt = "OptSetup" /\ so[n - 1].opt = "OptMiddleware" /\ so[n].opt = "OptMiddleware"
            /\ Settled(k))
           => LET q == Min(At("Get", k))
                  pr == Min(At("produced", k))
                  A == so[n - 1].f
                  B == so[n].f
                  v == events[pr - 1].val
              IN /\ pr = q - 1 /\ pr > 3
                 /\ events[pr - 3].ev = "call" /\ events[pr - 3].res = so[n - 2].f.kind
                 /\ events[pr - 2].ev = "call" /\ events[pr - 2].res = A.kind
                 /\ events[pr - 2].val = CallMiddleware(A, events[pr - 3].val).val
                 /\ events[pr - 1].ev = "call" /\ events[pr - 1].res = B.kind
                 /\ v = CallMiddleware(B, events[pr - 2].val).val
                 /\ events[pr].val = v
                 /\ events[q].val = v
                 /\ (At("Get", k) = {q} => entities[k].val = v)
                 /\ events[q].cl = IF entities[k].cleanupFn # NilFn THEN BoundCleanup(k, v) ELSE NoopCleanup
                 /\ \A r \in At("release", k) : events[r].cl = events[q].cl => events[r].val = v

\* Decrement then negate over a setup with a release function, resolved and
\* cleaned up: the value differs from the one negate-then-decrement gives.
C4_Witness ==
    \E k \in DOMAIN entities :
        LET so == SetupOpts(k)
            n == Len(so)
        IN /\ Settled(k)
           /\ n >= 3
           /\ so[n - 2].opt = "OptSetup" /\ so[n - 1] = Opt("OptMiddleware", MwDec)
           /\ so[n] = Opt("OptMiddleware", MwNeg)
           /\ At("Get", k) # {}
           /\ events[Min(At("Get", k))].res = "ok"
           /\ events[Min(At("Get", k))].val
                # CallMiddleware(MwDec, CallMiddleware(MwNeg, events[Min(At("produced", k)) - 3].val).val).val
           /\ \E r \in At("release", k) : events[r].cl = events[Min(At("Get", k))].cl

(***************************************************************************)
(* Names.                                                                  *)
(***************************************************************************)

\* Key, tabulated.
KeyOf == [T \in Types, n \in Names |-> Key(T, n)]

\* The step is a call of Set/SetNamed, or of Get/GetNamed, for the entity k.
Registers(k) ==
    nops' = nops + 1 /\ events'[Len(events')].ev = "Set" /\ events'[Len(events')].ent = k
Resolves(k) ==
    nops' = nops + 1 /\ events'[Len(events')].ev = "Get" /\ events'[Len(events')].ent = k

\* The step leaves the entity k as it is and does not call its setup function.
Untouched(k) ==
    /\ k \in DOMAIN entities' /\ entities'[k] = entities[k]
    /\ \A i \in 1..Len(NewEvents) : ~(NewEvents[i].ev = "setup" /\ NewEvents[i].ent = k)

\* Set and Get are SetNamed and GetNamed with the empty name: a step that
\* registers or resolves another entity than the one SetNamed and GetNamed
\* address for T and "" is no call of Set or Get for T.
EmptyNameIsUnnamed ==
    \A T \in Types :
        /\ (events'[Len(events')].ev = "Set" /\ ~Registers(KeyOf[T, ""]))
           => \A r \in caller.regs : r.T = T => ~CallSet(T, r.opts)
        /\ (events'[Len(events')].ev = "Get" /\ ~Resolves(KeyOf[T, ""]))
           => ~CallGet(T)

\* The entities that calling the setup function fn resolves, directly or
\* through the setup functions of the entities it resolves.
RECURSIVE Needs(_)
Needs(fn) ==
    CASE fn.kind = "mw" -> Needs(fn.inner)
      [] fn.kind \in {"dep", "depfail"} ->
            {Key(fn.T, fn.name)} \cup
                (IF Key(fn.T, fn.name) \in DOMAIN entities
                 THEN Needs(entities[Key(fn.T, fn.name)].setupFn)
                 ELSE {})
      [] OTHER -> {}

\* C5 as stated: registering or resolving an entity never changes, and never
\* sets up, an entity of the same type under another name.
C5_NeverTouchesOtherName ==
    /\ [][\A T \in Types : \A n1 \in Names :
            (Registers(KeyOf[T, n1]) \/ Resolves(KeyOf[T, n1]))
            => \A n2 \in Names \ {n1} :
                  KeyOf[T, n2] \in DOMAIN entities => Untouched(KeyOf[T, n2])]_vars
    /\ [][EmptyNameIsUnnamed]_vars

\* C5, amended: registering an entity never changes, and never sets up, an
\* entity of the same type under another name; resolving it does not either,
\* unless its own setup function resolves that other entity (directly or
\* through nested resolutions); Set and Get address the entity that SetNamed
\* and GetNamed address with the empty name.
C5_NameIsolation ==
    /\ [][\A T \in Types : \A n1 \in Names :
            /\ Registers(KeyOf[T, n1])
               => \A n2 \in Names \ {n1} :
                     KeyOf[T, n2] \in DOMAIN entities => Untouched(KeyOf[T, n2])
            /\ (Resolves(KeyOf[T, n1]) /\ KeyOf[T, n1] \in DOMAIN entities)
               => \A n2 \in Names \ {n1} :
                     (/\ KeyOf[T, n2] \in DOMAIN entities
                      /\ KeyOf[T, n2] \notin Needs(entities[KeyOf[T, n1]].setupFn))
                     => Untouched(KeyOf[T, n2])]_vars
    /\ [][EmptyNameIsUnnamed]_vars

\* Two names of one type are registered with setup functions; one has been
\* resolved, the other has not been set up and still holds its setup function.
C5_Witness ==
    \E T \in Types : \E n1, n2 \in Names :
        /\ n1 # n2
        /\ Key(T, n1) \in DOMAIN entities /\ Key(T, n2) \in DOMAIN entities
        /\ \E q \in At("Get", Key(T, n1)) : events[q].res = "ok"
        /\ At("setup", Key(T, n1)) # {}
        /\ At("setup", Key(T, n2)) = {}
        /\ entities[Key(T, n2)].setupFn # NilFn
        /\ entities[Key(T, n2)].val = empty

(***************************************************************************)
(* Errors.                                                                 *)
(***************************************************************************)

Last(seq) == seq[Len(seq)]

Range(seq) == {seq[i] : i \in 1..Len(seq)}

AllKeys == {Key(T, n) : T \in Types, n \in Names}

\* The errors a Cleanup event reports.
Reported(c) == IF events[c].err = NilErr THEN {} ELSE Range(events[c].err.errs)

\* The closures the resolutions that return in this step push, in order.
NewlyPushed ==
    LET g == SelectSeq(NewEvents, IsOkGet) IN [i \in 1..Len(g) |-> g[i].cl]

\* C6: a Get/GetNamed call for a name that is not registered runs nothing and
\* aborts with NotFound: it appends exactly that one error to c.errs and
\* leaves c.entities and c.cleanup as they were; and every Cleanup after a
\* NotFound reports it.
C6_MissingKey ==
    /\ [][\A k \in AllKeys :
            (Resolves(k) /\ k \notin DOMAIN entities)
            => /\ NewEvents = <<EvGet(k, "notfound", empty, NotFound(k), NoopCleanup)>>
               /\ errs' = Append(errs, NotFound(k))
               /\ entities' = entities
               /\ cleanup' = cleanup]_vars
    /\ [](\A c, q \in Idx :
            (events[c].ev = "Cleanup" /\ q < c /\ events[q].ev = "Get" /\ events[q].res = "notfound")
            => /\ events[q].err = NotFound(events[q].ent)
               /\ events[q].err \in Reported(c))

\* A resolution of an unregistered name, made while the container held
\* entities and release closures, and a Cleanup after it.
C6_Witness ==
    \E c, q \in Idx :
        /\ events[c].ev = "Cleanup" /\ q < c
        /\ events[q].ev = "Get" /\ events[q].res = "notfound"
        /\ PushedBefore(q) # <<>>

\* C7: a Get/GetNamed call whose entity's setup function (middlewares
\* included) returns an error aborts with SetupFailed: exactly that one error
\* is appended to c.errs, wrapping the cause; the entity is left as it was;
\* the stack grows only by the closures of the nested resolutions that
\* returned, none of them of this entity.  And the next resolution of an
\* entity after a failed one, with no registration of it in between, calls
\* its setup function again.
C7_SetupFailure ==
    /\ [][\A k \in AllKeys :
            (Resolves(k) /\ Last(NewEvents).res = "setupfailed")
            => LET produced == NewEvents[Len(NewEvents) - 1] IN
               /\ produced.ev = "produced" /\ produced.ent = k /\ produced.err # NilErr
               /\ errs' = Append(errs, SetupFailed(entities[k], produced.err))
               /\ Last(NewEvents).err = Last(errs')
               /\ entities'[k] = entities[k]
               /\ cleanup' = cleanup \o NewlyPushed
               /\ \A i \in 1..Len(NewEvents) : IsOkGet(NewEvents[i]) => NewEvents[i].ent # k]_vars
    /\ [](\A q, q2 \in Idx :
            (/\ q < q2
             /\ events[q].ev = "Get" /\ events[q].res = "setupfailed"
             /\ events[q2].ev = "Get" /\ events[q2].ent = events[q].ent
             /\ \A p \in At("Set", events[q].ent) : ~(q < p /\ p < q2))
            => \E s \in At("setup", events[q].ent) : q < s /\ s < q2)

\* A resolution that failed in a middleware, after the setup function had
\* succeeded, and a later resolution of the same entity with no registration
\* in between.
C7_Witness ==
    \E q, q2 \in Idx :
        /\ q < q2
        /\ events[q].ev = "Get" /\ events[q].res = "setupfailed"
        /\ events[q].err.cause = MiddlewareErr
        /\ events[q2].ev = "Get" /\ events[q2].ent = events[q].ent
        /\ \A p \in At("Set", events[q].ent) : ~(q < p /\ p < q2)

\* The number of times x occurs in seq.
Count(seq, x) == Cardinality({i \in 1..Len(seq) : seq[i] = x})

\* C8: every Cleanup calls each closure of the stack exactly once, whichever
\* of them fail, and reports every non-nil error they return.
C8_DrainContinues ==
    \A c \in Idx : events[c].ev = "Cleanup" =>
        LET stack == PushedBefore(c)
            first == c - Len(stack)
            calls == [i \in 1..Len(stack) |-> events[first - 1 + i].cl]
        IN /\ first >= 1
           /\ \A p \in first..(c - 1) : events[p].ev = "release"
           /\ (first > 1 => events[first - 1].ev # "release")
           /\ \A x \in Range(stack) \cup Range(calls) : Count(calls, x) = Count(stack, x)
           /\ \A p \in first..(c - 1) : events[p].err # NilErr => events[p].err \in Reported(c)

\* A Cleanup whose first release failed and which went on to call two more
\* closures, one of which returned nil.
C8_Witness ==
    \E c \in Idx :
        /\ events[c].ev = "Cleanup"
        /\ Len(Drained(c)) >= 3
        /\ Drained(c)[1].err # NilErr
        /\ \E i \in 2..Len(Drained(c)) : Drained(c)[i].err = NilErr

\* The errors of the events seq that are not nil, in order.
Errs(seq) ==
    LET failed == SelectSeq(seq, LAMBDA e : e.err # NilErr)
    IN [i \in 1..Len(failed) |-> failed[i].err]

\* C9: the first Cleanup of a container reports, in this order, the fatal
\* errors of the resolutions before it in the order they occurred, and then
\* the errors of the release closures in the order of the drain, which is
\* the reverse of the order of the resolutions that pushed them.
C9_JoinOrder ==
    \A c \in Idx :
        (events[c].ev = "Cleanup" /\ \A b \in 1..(c - 1) : events[b].ev # "Cleanup")
        => LET fatal == Errs(SelectSeq(SubSeq(events, 1, c - 1), IsFatalGet))
               failures == Errs(Drained(c))
               all == fatal \o failures
           IN /\ events[c].err = IF all = <<>> THEN NilErr ELSE [kind |-> "join", errs |-> all]
              /\ \A i \in 1..Len(Drained(c)) :
                    Drained(c)[i].cl = Reverse(PushedBefore(c))[i]

\* A first Cleanup that reports a fatal error and then two different release
\* errors.
C9_Witness ==
    \E c \in Idx :
        /\ events[c].ev = "Cleanup" /\ \A b \in 1..(c - 1) : events[b].ev # "Cleanup"
        /\ \E q \in 1..(c - 1) : IsFatalGet(events[q])
        /\ Len(Errs(Drained(c))) >= 2
        /\ Distinct(Errs(Drained(c)))

\* C10 as stated: once a Cleanup has returned the release stack is empty, and
\* a Cleanup that follows another with no resolution in between calls no
\* closure and reports what the one before reported.
C10_SecondCleanupIsNoop ==
    /\ (events # <<>> /\ Last(events).ev = "Cleanup") => cleanup = <<>>
    /\ \A c1, c2 \in Idx :
          (/\ c1 < c2
           /\ events[c1].ev = "Cleanup" /\ events[c2].ev = "Cleanup"
           /\ \A p \in (c1 + 1)..(c2 - 1) : events[p].ev = "release")
          => /\ c2 = c1 + 1
             /\ events[c2].err = events[c1].err

(***************************************************************************)
(* Registration.                                                           *)
(***************************************************************************)

\* C11: a Set/SetNamed call runs none of the caller's functions and touches
\* neither c.errs nor c.cleanup: all it adds to the record is the
\* registration.  An entity's setup function is called only inside a
\* resolution of that entity (no registration, release or Cleanup comes
\* between the call and the return of that resolution), so an entity that was
\* never resolved, directly or by another entity's setup function, was never
\* set up and holds no value.
C11_LazyRegistration ==
    /\ [][(nops' = nops + 1 /\ Last(events').ev = "Set")
            => /\ NewEvents = <<Last(events')>>
               /\ errs' = errs
               /\ cleanup' = cleanup
               /\ count' = count]_vars
    /\ [](\A s \in Idx : events[s].ev = "setup" =>
            \E q \in At("Get", events[s].ent) :
                /\ q > s
                /\ \A p \in s..q : events[p].ev \notin {"Set", "release", "Cleanup"})
    /\ [](\A k \in DOMAIN entities :
            At("Get", k) = {} => (At("setup", k) = {} /\ entities[k].val = empty))

\* An entity registered with a setup function and again under the same name,
\* never resolved, while another entity was resolved and the container
\* cleaned up.
C11_Witness ==
    \E k, k2 \in DOMAIN entities :
        /\ Len(EventsOf("Set", k)) >= 2
        /\ entities[k].setupFn # NilFn
        /\ At("Get", k) = {}
        /\ \E q \in At("Get", k2) : events[q].res = "ok" /\ events[q].val # empty
        /\ Last(events).ev = "Cleanup"

\* C12: Cleanup calls a release function only through a closure that a
\* resolution pushed right after the entity's setup function had returned a
\* value, and passes it that value.  An entity that was never given a setup
\* function (OptCleanup only) is never set up, its resolutions, once it is
\* registered, return the zero value and push the no-op closure, and its
\* release function is never called.
C12_ReleaseOnlyAfterSetup ==
    /\ \A r \in Idx : (events[r].ev = "release" /\ events[r].res # "noop") =>
          /\ events[r].cl.kind = "bound"
          /\ events[r].val = events[r].cl.val
          /\ \E q \in At("Get", events[r].cl.ent) :
                /\ q < r /\ q > 1
                /\ events[q].res = "ok" /\ events[q].cl = events[r].cl
                /\ events[q - 1].ev = "produced" /\ events[q - 1].ent = events[q].ent
                /\ events[q - 1].err = NilErr /\ events[q - 1].val = events[r].cl.val
    /\ \A k \in DOMAIN entities :
          (~Registered(k, "OptSetup") /\ ~Registered(k, "OptMiddleware")) =>
          /\ At("setup", k) = {}
          /\ At("release", k) = {}
          /\ \A q \in At("Get", k) : q > Min(At("Set", k)) =>
                events[q].res = "ok" /\ events[q].cl = NoopCleanup /\ events[q].val = empty

\* An entity registered with a release function and nothing else, resolved,
\* and then a Cleanup that called the no-op closure this resolution pushed.
C12_Witness ==
    \E k \in DOMAIN entities :
        /\ SetupOpts(k) = <<>>
        /\ entities[k].cleanupFn # NilFn
        /\ \E q \in At("Get", k) : events[q].res = "ok"
        /\ Last(events).ev = "Cleanup"
        /\ \E i \in 1..Len(Drained(Len(events))) : Drained(Len(events))[i].res = "noop"

\* Some option of opts is one of those named.
Writes(opts, names) == \E i \in 1..Len(opts) : opts[i].opt \in names

\* C13: a Set/SetNamed call for a name that is registered keeps the entity
\* and applies the options to it: the cached value stays; the setup
\* function stays unless OptSetup or OptMiddleware is passed, the release
\* function unless OptCleanup is passed, the reuse policy unless OptNoReuse is
\* passed; the entity becomes what the options make of the entity it was.
\* No entity is added and every other entity stays as it is.
C13_ReRegistrationExtends ==
    [][(nops' = nops + 1 /\ Last(events').ev = "Set" /\ Last(events').ent \in DOMAIN entities)
        => LET k == Last(events').ent
               opts == Last(events').opts
               was == entities[k]
               now == entities'[k]
           IN /\ DOMAIN entities' = DOMAIN entities
              /\ \A k2 \in DOMAIN entities \ {k} : entities'[k2] = entities[k2]
              /\ now.val = was.val
              /\ (~Writes(opts, {"OptSetup", "OptMiddleware"}) => now.setupFn = was.setupFn)
              /\ (~Writes(opts, {"OptCleanup"}) => now.cleanupFn = was.cleanupFn)
              /\ now.noReuse = (was.noReuse \/ Writes(opts, {"OptNoReuse"}))
              /\ now = ApplyOpts(opts, was)]_vars

\* An entity with a release function that was resolved to a value and then
\* registered again with options that pass no release function: it still
\* holds the value and the release function, next to another entity.
C13_Witness ==
    \E k \in DOMAIN entities :
        /\ Last(events).ev = "Set" /\ Last(events).ent = k
        /\ ~Writes(Last(events).opts, {"OptCleanup"})
        /\ entities[k].cleanupFn # NilFn
        /\ \E q \in At("Get", k) :
              events[q].res = "ok" /\ events[q].val # empty /\ entities[k].val = events[q].val
        /\ DOMAIN entities # {k}

(***************************************************************************)
(* Types.                                                                  *)
(***************************************************************************)

\* No entity name is the name of two types.
KeysOfTypesDiffer ==
    \A T1, T2 \in Types : \A n1, n2 \in Names : T1 # T2 => KeyOf[T1, n1] # KeyOf[T2, n2]

C15_NilExactly ==
    \A c \in Idx : events[c].ev = "Cleanup" =>
        /\ (events[c].err = NilErr)
             <=> \A p \in 1..(c - 1) :
                    /\ ~IsFatalGet(events[p])
                    /\ (events[p].ev = "release" => events[p].err = NilErr)
        /\ (c = 1 => events[c].err = NilErr)

\* A Cleanup that returned nil after it had called a release function, which
\* returned nil, and a no-op closure; and the first Cleanup of that container
\* was one of a container with nothing in it.
C15_Witness ==
    \E c \in Idx :
        /\ events[c].ev = "Cleanup" /\ events[c].err = NilErr
        /\ \E i, j \in 1..Len(Drained(c)) :
              Drained(c)[i].res = "relNil" /\ Drained(c)[j].res = "noop"
        /\ events[1].ev = "Cleanup" /\ c > 1

(***************************************************************************)
(* What a release closure captures.                                        *)
(***************************************************************************)

\* The release function the entity k holds at position q of the events: the
\* one the last OptCleanup of its registrations before q passed.
CleanupFnAt(k, q) ==
    LET sets == SelectSeq(SubSeq(events, 1, q - 1), LAMBDA e : e.ev = "Set" /\ e.ent = k)
        passed == SelectSeq(Concat([i \in 1..Len(sets) |-> sets[i].opts]),
                            LAMBDA o : o.opt = "OptCleanup")
    IN IF passed = <<>> THEN NilFn ELSE Last(passed).f

\* C16 as stated: the release function a bound closure calls is the one its
\* entity held when a resolution that pushed this closure returned, whatever
\* was registered since.
C16_ClosureKeepsReleaseFn ==
    \A r \in Idx : (events[r].ev = "release" /\ events[r].cl.kind = "bound") =>
        \E q \in At("Get", events[r].cl.ent) :
            /\ q < r
            /\ events[q].res = "ok" /\ events[q].cl = events[r].cl
            /\ events[r].res = CleanupFnAt(events[r].cl.ent, q).kind

(***************************************************************************)
(* Resolutions that abort.                                                 *)
(***************************************************************************)

\* C17 as stated: a Get/GetNamed call either returns a value or has appended
\* a NotFound or SetupFailed error to c.errs when it aborts (the call itself
\* or a resolution nested in it); and the
\* resolution of an entity whose setup function was nil when a middleware was
\* registered on it (never set, or cleared by a resolution that is reused)
\* returns a value.
C17_ResolveReturnsOrRecords ==
    [][(nops' = nops + 1 /\ Last(events').ev = "Get")
        => /\ \/ Last(events').res = "ok"
              \/ /\ Len(errs') > Len(errs)
                 /\ Last(errs').kind \in {"NotFound", "SetupFailed"}
           /\ \A k \in DOMAIN entities :
                 (/\ Last(events').ent = k
                  /\ entities[k].setupFn.kind = "mw"
                  /\ entities[k].setupFn.inner = NilFn)
                 => Last(events').res = "ok"]_vars

(***************************************************************************)
(* Nested resolutions.                                                     *)
(***************************************************************************)

Max(S) == CHOOSE x \in S : \A y \in S : x >= y

\* The index in c.cleanup of the closure that the resolution returning at
\* position q pushed.
StackIndex(q) == Len(PushedBefore(q + 1))

\* The resolution returning at position q ran the setup function of its
\* entity; SetupStart(q) is the position where that call began.
RanSetup(q) ==
    /\ IsOkGet(events[q]) /\ q > 1
    /\ events[q - 1].ev = "produced" /\ events[q - 1].ent = events[q].ent
SetupStart(q) == Max({s \in 1..(q - 1) : events[s].ev = "setup" /\ events[s].ent = events[q].ent})

\* The resolutions that returned inside the setup of the resolution at q.
NestedIn(q) == {p \in (SetupStart(q) + 1)..(q - 1) : IsOkGet(events[p])}

\* C18: the closure of a resolution that returned inside the setup function
\* of another resolution lies below the closure of that other resolution on
\* the stack, and every Cleanup after them calls the closure of the outer
\* resolution (the dependent) before the closure of the nested one (its
\* dependency).
C18_DependentsFirst ==
    \A q \in Idx : RanSetup(q) =>
        \A p \in NestedIn(q) :
            /\ StackIndex(p) < StackIndex(q)
            /\ cleanup[StackIndex(p)] = events[p].cl
            /\ cleanup[StackIndex(q)] = events[q].cl
            /\ \A c \in Idx : (events[c].ev = "Cleanup" /\ c > q) =>
                  LET rq == c - StackIndex(q)
                      rp == c - StackIndex(p)
                  IN /\ rq < rp
                     /\ events[rq].ev = "release" /\ events[rq].cl = events[q].cl
                     /\ events[rp].ev = "release" /\ events[rp].cl = events[p].cl
                     /\ rp > c - 1 - Len(PushedBefore(c))

\* A resolution whose setup resolved an entity whose setup resolved a third,
\* and a Cleanup that called their three closures, all bound and of three
\* entities.
C18_Witness ==
    \E q, c \in Idx :
        /\ RanSetup(q) /\ Cardinality(NestedIn(q)) >= 2
        /\ events[c].ev = "Cleanup" /\ c > q
        /\ \A p \in NestedIn(q) \cup {q} : events[p].cl.kind = "bound"
        /\ Cardinality({events[p].ent : p \in NestedIn(q) \cup {q}}) >= 3

\* The resolution returning at position q aborted with SetupFailed.
FailedSetup(q) == events[q].ev = "Get" /\ events[q].res = "setupfailed"

\* C19: the closures of the resolutions that returned inside a setup function
\* that then failed stay on the stack, and every Cleanup after the failure
\* calls them; the failed resolution itself pushes nothing: when it aborts,
\* the top of the stack is the closure of the last resolution that returned
\* before it.
C19_FailureKeepsNested ==
    \A q \in Idx : FailedSetup(q) =>
        /\ \A p \in NestedIn(q) :
              /\ StackIndex(p) <= Len(cleanup)
              /\ cleanup[StackIndex(p)] = events[p].cl
              /\ \A c \in Idx : (events[c].ev = "Cleanup" /\ c > q) =>
                    LET rp == c - StackIndex(p)
                    IN /\ events[rp].ev = "release" /\ events[rp].cl = events[p].cl
                       /\ events[rp].val = events[p].cl.val
                       /\ rp > q
        /\ q = Len(events) =>
              /\ Len(cleanup) = StackIndex(q)
              /\ \A i \in 1..Len(cleanup) : cleanup[i].kind = "bound" =>
                    \E p \in 1..(q - 1) : IsOkGet(events[p]) /\ StackIndex(p) = i /\ events[p].cl = cleanup[i]

\* A resolution that failed after its setup function had resolved an entity
\* whose setup resolved another, both with release functions, and a Cleanup
\* that reported the failure and then called the two release functions.
C19_Witness ==
    \E q, c \in Idx :
        /\ FailedSetup(q) /\ Cardinality(NestedIn(q)) >= 2
        /\ \A p \in NestedIn(q) : events[p].cl.kind = "bound"
        /\ events[c].ev = "Cleanup" /\ c > q
        /\ events[q].err \in Reported(c)
        /\ \A p \in NestedIn(q) : events[c - StackIndex(p)].err \in Reported(c)

(***************************************************************************)
(* OptSetup and the middlewares before it.                                 *)
(***************************************************************************)

\* The options that write the setup function, as the registrations of k
\* before position s of the events passed them, in order.
SetupOptsBefore(k, s) ==
    LET sets == SelectSeq(SubSeq(events, 1, s - 1), LAMBDA e : e.ev = "Set" /\ e.ent = k)
    IN SelectSeq(Concat([i \in 1..Len(sets) |-> sets[i].opts]),
                 LAMBDA o : o.opt \in {"OptSetup", "OptMiddleware"})

\* The position of the last OptSetup among the options so (0: there is none).
LastOptSetup(so) == Max({0} \cup {j \in 1..Len(so) : so[j].opt = "OptSetup"})

\* The calls of the caller's functions that end at position pr - 1 with no
\* other event between them: the entity's own setup function and middlewares.
OwnCalls(pr) ==
    SubSeq(events, Max({i \in 1..(pr - 1) : events[i].ev # "call"}) + 1, pr - 1)

\* C20: whenever the setup function of an entity returns, what ran is the
\* function F of the last OptSetup registered for the entity and then, in
\* the order registered, the middlewares registered after that OptSetup,
\* each on the value of the one before, up to the first that fails; no
\* middleware registered before that OptSetup ran.  The result of the last
\* call is the result of the setup, and what the resolution returns.
C20_OptSetupReplacesChain ==
    \A pr \in Idx : events[pr].ev = "produced" =>
        LET k == events[pr].ent
            s == Max({i \in 1..(pr - 1) : events[i].ev = "setup" /\ events[i].ent = k})
            so == SetupOptsBefore(k, s)
            j == LastOptSetup(so)
            mws == SubSeq(so, j + 1, Len(so))
            own == OwnCalls(pr)
        IN /\ j >= 1
           /\ Len(own) >= 1 /\ Len(own) <= 1 + Len(mws)
           /\ own[1].res = so[j].f.kind
           /\ \A i \in 1..(Len(own) - 1) :
                 /\ own[i].err = NilErr
                 /\ own[i + 1].res = mws[i].f.kind
                 /\ own[i + 1].val = CallMiddleware(mws[i].f, own[i].val).val
                 /\ own[i + 1].err = CallMiddleware(mws[i].f, own[i].val).err
           /\ (Len(own) < 1 + Len(mws) => Last(own).err # NilErr)
           /\ events[pr].val = Last(own).val /\ events[pr].err = Last(own).err
           /\ (events[pr].err = NilErr /\ pr < Len(events))
                 => (events[pr + 1].ev = "Get" /\ events[pr + 1].ent = k
                     /\ events[pr + 1].res = "ok" /\ events[pr + 1].val = Last(own).val)

\* A middleware, then a setup function, then another middleware, registered
\* one after the other; the resolution returned what the second middleware
\* made of the setup's value, which is not what the two middlewares make of
\* it in either order.
C20_Witness ==
    \E pr \in Idx :
        /\ events[pr].ev = "produced" /\ events[pr].err = NilErr
        /\ LET k == events[pr].ent
               so == SetupOptsBefore(k, pr)
               own == OwnCalls(pr)
           IN /\ Len(so) = 3 /\ LastOptSetup(so) = 2
              /\ Len(own) = 2
              /\ pr < Len(events) /\ events[pr + 1].res = "ok"
              /\ events[pr + 1].val = CallMiddleware(so[3].f, own[1].val).val
              /\ events[pr + 1].val
                    # CallMiddleware(so[3].f, CallMiddleware(so[1].f, own[1].val).val).val
              /\ events[pr + 1].val
                    # CallMiddleware(so[1].f, CallMiddleware(so[3].f, own[1].val).val).val

====
